---------------------------- MODULE Spec2Model ----------------------------
(***************************************************************************)
(* A model of the OddsFetcher scripts:                                     *)
(*   - fetchodds.py / fetchoddsMLB.py: the featured-odds fetch with its    *)
(*     single retry on HTTP 422, the selection of today's games and the    *)
(*     per-game event-odds requests (SpecOdds);                            *)
(*   - fetchstatsMLB.py: the paginated player-stats fetch (SpecPage) and   *)
(*     main(), the two outer joins and the CSV writes (SpecStats).         *)
(***************************************************************************)
EXTENDS Integers, Sequences, FiniteSets, TLC

VARIABLES
    \* ---- fetchodds.py / fetchoddsMLB.py
    script,        \* which of the two scripts runs
    pc,            \* position of the script
    getLog,        \* history: every requests.get issued, with the answer
    games,         \* return value of fetch_featured_odds
    today_games,   \* the games selected by the date filter
    gi,            \* number of today games the extra-markets loop has handled
    csv,           \* rows written through the DictWriter (fetchoddsMLB.py)
    csvOpen,       \* the CSV file is open (inside the with block)
    jsonFile,      \* documents dumped to odds.json (fetchodds.py)
    exported,      \* the final "Exported odds to CSV" message was printed
    \* ---- fetchstatsMLB.py, fetch_all_hitting_stats / fetch_all_pitching_stats
    group,         \* "hitting" or "pitching": which of the two functions runs
    nRecords,      \* number of player records the server holds
    ppc,           \* position of the pagination loop
    offset,        \* the loop's offset
    all_rows,      \* the loop's accumulated rows
    raw,           \* the last answer of statsapi.get
    statLog,       \* history: every statsapi.get issued, with the count returned
    returned_df,   \* the DataFrame the function returns
    \* ---- fetchstatsMLB.py, main()
    mpc,           \* position of main()
    hitting_df, pitching_df, merged_players, player_csv,
    team_hitting_df, team_pitching_df, merged_teams, team_csv

oddsVars  == <<script, pc, getLog, games, today_games, gi, csv, csvOpen, jsonFile, exported>>
pageVars  == <<group, nRecords, ppc, offset, all_rows, raw, statLog, returned_df>>
statsVars == <<mpc, hitting_df, pitching_df, merged_players, player_csv,
               team_hitting_df, team_pitching_df, merged_teams, team_csv>>
vars == <<oddsVars, pageVars, statsVars>>

\* Python's None
None == "None"
\* the value of a name that is not bound yet, and of a file not written yet
Unset == [unset |-> TRUE]

\* ---- bounds of the model
MaxGames == 3
MaxRecords == 205
MaxPlayers == 3
MaxTeams == 2

RECURSIVE ConcatAll(_)
ConcatAll(ss) == IF ss = <<>> THEN <<>> ELSE Head(ss) \o ConcatAll(Tail(ss))

\* dict.get(key, default)
Get(rec, key, default) == IF key \in DOMAIN rec THEN rec[key] ELSE default

(***************************************************************************)
(* fetchodds.py and fetchoddsMLB.py                                        *)
(***************************************************************************)
FEATURED_MARKETS == <<"h2h", "spreads", "totals">>
desired_markets == FEATURED_MARKETS \o <<"player_props">>
EXTRA_MARKETS(s) ==
    IF s = "fetchodds"
    THEN <<"batter_home_runs", "batter_hits", "pitcher_strikeouts", "totals_1st_5_innings">>
    ELSE <<"batter_home_runs", "batter_hits", "batter_rbis", "batter_runs_scored",
           "batter_stolen_bases", "batter_singles", "batter_doubles", "batter_triples",
           "batter_walks", "batter_strikeouts", "batter_hits_runs_rbis",
           "pitcher_strikeouts", "pitcher_hits_allowed", "pitcher_walks",
           "pitcher_earned_runs", "pitcher_outs", "totals_1st_5_innings">>

\* ",".join(markets)
RECURSIVE Join(_)
Join(s) == IF s = <<>> THEN ""
           ELSE IF Len(s) = 1 THEN s[1]
           ELSE s[1] \o "," \o Join(Tail(s))

Scripts == {"fetchodds", "fetchoddsMLB"}
\* the status codes the server answers with: success, the unsupported-markets
\* error, and another error
Statuses == {200, 422, 500}

FeaturedUrl == <<"odds">>
EventUrl(event_id) == <<"events", event_id, "odds">>

\* ---- what the server holds
CommenceDays == {"today", "tomorrow"}
GameIds == 1..MaxGames

FeaturedBooks(id) ==
    << [key |-> "draftkings", title |-> "DraftKings",
        markets |-> << [key |-> "h2h",
                        outcomes |-> << [name |-> "A" \o ToString(id), price |-> 110],
                                        [name |-> "H" \o ToString(id), price |-> -130] >>],
                       [key |-> "totals",
                        outcomes |-> << [name |-> "Over", price |-> -105, point |-> 8] >>] >>],
       [key |-> "fanduel", markets |-> <<>>] >>

EventBooks(id) ==
    << [key |-> "fanduel",
        markets |-> << [key |-> "batter_hits",
                        outcomes |-> << [name |-> "Over", description |-> "P" \o ToString(id),
                                         price |-> 150, point |-> 1],
                                        [name |-> "Over", player_name |-> "Q" \o ToString(id),
                                         description |-> "Over", price |-> 120],
                                        [name |-> "Under", player_name |-> "Q" \o ToString(id),
                                         description |-> "2+ hits", price |-> 130] >>] >>] >>

Game(id, day) ==
    [id |-> id, commence_time |-> day,
     away_team |-> "A" \o ToString(id), home_team |-> "H" \o ToString(id),
     bookmakers |-> FeaturedBooks(id)]

EventJson(g) ==
    [id |-> g.id, commence_time |-> g.commence_time,
     away_team |-> g.away_team, home_team |-> g.home_team,
     bookmakers |-> EventBooks(g.id)]

\* the body of an error answer
ErrorJson == [message |-> "error"]

\* the featured responses: up to MaxGames games with distinct ids, in any order
IdLists == UNION {{s \in [1..n -> GameIds] : \A i, j \in 1..n : i # j => s[i] # s[j]} : n \in 0..MaxGames}
GameLists == UNION {{[i \in 1..Len(ids) |-> Game(ids[i], days[i])] :
                        days \in [1..Len(ids) -> CommenceDays]} : ids \in IdLists}

\* ---- fetch_featured_odds
\* the outcome of the first GET: raise_for_status, and the except clause
FirstOutcome(status) ==
    IF status = 200 THEN "fetched"
    ELSE IF status = 422 THEN "retry"
    ELSE "raised"

\* mutant: the retry is repeated while the server answers 422
RetryOutcome_retriesAgain(status) ==
    IF status = 200 THEN "fetched" ELSE IF status = 422 THEN "retry" ELSE "raised"
\* the outcome of the second GET: raise_for_status inside the except clause
RetryOutcome(status) ==
    IF status = 200 THEN "fetched" ELSE "raised"

\* mutant: the retry repeats the request unchanged
FallbackMarkets_keepsDesired == Join(desired_markets)
\* params["markets"] of the retry
FallbackMarkets == Join(FEATURED_MARKETS)

Request(url, markets, status, json) ==
    [url |-> url, markets |-> markets, status_code |-> status, json |-> json]

FetchFeaturedFirst ==
    /\ pc = "start"
    /\ \E status \in Statuses, body \in GameLists :
         /\ getLog' = Append(getLog, Request(FeaturedUrl, Join(desired_markets), status,
                                             IF status = 200 THEN body ELSE <<>>))
         /\ pc' = FirstOutcome(status)
         /\ games' = IF status = 200 THEN body ELSE games
    /\ UNCHANGED <<script, today_games, gi, csv, csvOpen, jsonFile, exported>>
    /\ UNCHANGED <<pageVars, statsVars>>

FetchFeaturedRetry ==
    /\ pc = "retry"
    /\ \E status \in Statuses, body \in GameLists :
         /\ getLog' = Append(getLog, Request(FeaturedUrl, FallbackMarkets, status,
                                             IF status = 200 THEN body ELSE <<>>))
         /\ pc' = RetryOutcome(status)
         /\ games' = IF status = 200 THEN body ELSE games
    /\ UNCHANGED <<script, today_games, gi, csv, csvOpen, jsonFile, exported>>
    /\ UNCHANGED <<pageVars, statsVars>>

\* ---- the date filter
\* mutant: every game is selected
IsToday_all(g) == TRUE
\* today_start <= game_time_local_naive <= today_end
IsToday(g) == g.commence_time = "today"

SelectToday(gs) == SelectSeq(gs, IsToday)

\* ---- write_odds_row
full_outcome_name(outcome) ==
    LET outcome_name == outcome.name
        player_name  == Get(outcome, "player_name", "")
        description  == Get(outcome, "description", "")
    IN IF player_name # ""
       THEN IF description # "" /\ description # outcome_name
            THEN player_name \o " - " \o description
            ELSE player_name \o " - " \o outcome_name
       ELSE outcome_name

write_odds_row(game_info, bookmaker, market, outcome) ==
    [commence_time |-> game_info.commence_time,
     away_team     |-> game_info.away_team,
     home_team     |-> game_info.home_team,
     bookmaker     |-> bookmaker,
     market_key    |-> market,
     outcome_name  |-> full_outcome_name(outcome),
     player_name   |-> Get(outcome, "player_name", ""),
     description   |-> Get(outcome, "description", ""),
     price         |-> outcome.price,
     point         |-> Get(outcome, "point", "")]

\* the three nested loops over bookmakers, markets and outcomes
RowsOfMarket(game_info, bookmaker, m) ==
    [i \in 1..Len(m.outcomes) |-> write_odds_row(game_info, bookmaker, m.key, m.outcomes[i])]
RowsOfBook(game_info, book) ==
    ConcatAll([j \in 1..Len(book.markets) |->
        RowsOfMarket(game_info, Get(book, "title", Get(book, "key", None)), book.markets[j])])
RowsOfBooks(game_info, books) ==
    ConcatAll([k \in 1..Len(books) |-> RowsOfBook(game_info, books[k])])

FeaturedRows(game) ==
    RowsOfBooks([commence_time |-> game.commence_time, away_team |-> game.away_team,
                 home_team |-> game.home_team], game.bookmakers)

ExtraRows(game, full) ==
    RowsOfBooks([commence_time |-> Get(full, "commence_time", game.commence_time),
                 away_team     |-> Get(full, "away_team", game.away_team),
                 home_team     |-> Get(full, "home_team", game.home_team)],
                full.bookmakers)

\* ---- fetchodds.py, the script
SaveAndFilter ==
    /\ script = "fetchodds"
    /\ pc = "fetched"
    /\ jsonFile' = <<games>>
    /\ today_games' = SelectToday(games)
    /\ pc' = "extra"
    /\ UNCHANGED <<script, getLog, games, gi, csv, csvOpen, exported>>
    /\ UNCHANGED <<pageVars, statsVars>>

ExtraMarketsJson ==
    /\ script = "fetchodds"
    /\ pc = "extra"
    /\ gi < Len(today_games)
    /\ LET game == today_games[gi + 1] IN
       \E status \in Statuses :
         /\ getLog' = Append(getLog, Request(EventUrl(game.id), Join(EXTRA_MARKETS(script)), status,
                                             IF status = 200 THEN EventJson(game) ELSE ErrorJson))
         /\ IF status = 200
            THEN /\ jsonFile' = Append(jsonFile, EventJson(game))
                 /\ gi' = gi + 1
                 /\ pc' = pc
            ELSE /\ pc' = "raised"
                 /\ UNCHANGED <<jsonFile, gi>>
    /\ UNCHANGED <<script, games, today_games, csv, csvOpen, exported>>
    /\ UNCHANGED <<pageVars, statsVars>>

FinishJson ==
    /\ script = "fetchodds"
    /\ pc = "extra"
    /\ gi = Len(today_games)
    /\ pc' = "done"
    /\ UNCHANGED <<script, getLog, games, today_games, gi, csv, csvOpen, jsonFile, exported>>
    /\ UNCHANGED <<pageVars, statsVars>>

\* ---- fetchoddsMLB.py, the script
FilterToday ==
    /\ script = "fetchoddsMLB"
    /\ pc = "fetched"
    /\ today_games' = SelectToday(games)
    /\ pc' = "filtered"
    /\ UNCHANGED <<script, getLog, games, gi, csv, csvOpen, jsonFile, exported>>
    /\ UNCHANGED <<pageVars, statsVars>>

WriteFeatured ==
    /\ script = "fetchoddsMLB"
    /\ pc = "filtered"
    /\ csvOpen' = TRUE
    /\ csv' = ConcatAll([i \in 1..Len(today_games) |-> FeaturedRows(today_games[i])])
    /\ pc' = "extra"
    /\ UNCHANGED <<script, getLog, games, today_games, gi, jsonFile, exported>>
    /\ UNCHANGED <<pageVars, statsVars>>

\* mutant: the HTTPError of one game ends the script
EventErrorOutcome_propagates == "raised"
\* except HTTPError: print and continue
EventErrorOutcome == "extra"

ExtraMarketsCsv ==
    /\ script = "fetchoddsMLB"
    /\ pc = "extra"
    /\ gi < Len(today_games)
    /\ LET game == today_games[gi + 1] IN
       \E status \in Statuses :
         /\ getLog' = Append(getLog, Request(EventUrl(game.id), Join(EXTRA_MARKETS(script)), status,
                                             IF status = 200 THEN EventJson(game) ELSE ErrorJson))
         /\ IF status = 200
            THEN /\ csv' = csv \o ExtraRows(game, EventJson(game))
                 /\ gi' = gi + 1
                 /\ pc' = pc
                 /\ UNCHANGED csvOpen
            ELSE /\ pc' = EventErrorOutcome
                 /\ gi' = IF EventErrorOutcome = "extra" THEN gi + 1 ELSE gi
                 /\ csvOpen' = (EventErrorOutcome = "extra")
                 /\ UNCHANGED csv
    /\ UNCHANGED <<script, games, today_games, jsonFile, exported>>
    /\ UNCHANGED <<pageVars, statsVars>>

FinishCsv ==
    /\ script = "fetchoddsMLB"
    /\ pc = "extra"
    /\ gi = Len(today_games)
    /\ csvOpen' = FALSE
    /\ exported' = TRUE
    /\ pc' = "done"
    /\ UNCHANGED <<script, getLog, games, today_games, gi, csv, jsonFile>>
    /\ UNCHANGED <<pageVars, statsVars>>

InitOdds ==
    /\ script \in Scripts
    /\ pc = "start"
    /\ getLog = <<>>
    /\ games = <<>>
    /\ today_games = <<>>
    /\ gi = 0
    /\ csv = <<>>
    /\ csvOpen = FALSE
    /\ jsonFile = <<>>
    /\ exported = FALSE

IdleOdds ==
    /\ script = "fetchodds"
    /\ pc = "idle"
    /\ getLog = <<>>
    /\ games = <<>>
    /\ today_games = <<>>
    /\ gi = 0
    /\ csv = <<>>
    /\ csvOpen = FALSE
    /\ jsonFile = <<>>
    /\ exported = FALSE

IdlePage ==
    /\ group = "hitting"
    /\ nRecords = 0
    /\ ppc = "idle"
    /\ offset = 0
    /\ all_rows = <<>>
    /\ raw = Unset
    /\ statLog = <<>>
    /\ returned_df = Unset

IdleStats ==
    /\ mpc = "idle"
    /\ hitting_df = Unset
    /\ pitching_df = Unset
    /\ merged_players = Unset
    /\ player_csv = Unset
    /\ team_hitting_df = Unset
    /\ team_pitching_df = Unset
    /\ merged_teams = Unset
    /\ team_csv = Unset

NextOdds ==
    \/ FetchFeaturedFirst
    \/ FetchFeaturedRetry
    \/ SaveAndFilter
    \/ ExtraMarketsJson
    \/ FinishJson
    \/ FilterToday
    \/ WriteFeatured
    \/ ExtraMarketsCsv
    \/ FinishCsv

InitOddsRun == InitOdds /\ IdlePage /\ IdleStats

SpecOdds == InitOddsRun /\ [][NextOdds]_vars

(***************************************************************************)
(* fetchstatsMLB.py: fetch_all_hitting_stats and fetch_all_pitching_stats  *)
(***************************************************************************)
limit == 100
Groups == {"hitting", "pitching"}
NaN == "NaN"

\* ---- what the server holds: nRecords splits, at positions 0..nRecords-1
Split(i) ==
    [player |-> [id |-> 600000 + i, fullName |-> "Player " \o ToString(i)],
     stat   |-> [gamesPlayed |-> "games " \o ToString(i % 3)]]

\* the number of records a page may carry: the server may cap a page below
\* the requested limit, and returns at least one record while records remain
PageCounts(off, lim) ==
    IF off >= nRecords THEN {0}
    ELSE LET remaining == nRecords - off
             Min(a, b) == IF a <= b THEN a ELSE b
         IN {Min(c, Min(lim, remaining)) : c \in {1, lim \div 2, lim}}
PageSplits(off, k) == [i \in 1..k |-> Split(off + i - 1)]

\* the JSON shapes of an answer carrying the splits recs
Answers(recs) ==
    IF recs = <<>>
    THEN {[copyright |-> "MLB"],
          [stats |-> <<>>],
          [stats |-> <<[type |-> "season"]>>],
          [stats |-> <<[splits |-> <<>>]>>]}
    ELSE {[stats |-> <<[splits |-> recs]>>],
          [stats |-> <<[splits |-> <<>>], [splits |-> recs]>>]}

\* ---- one iteration of the while loop
\* row[f"{group}_{fld}"] = val, for fld, val in stat_values.items()
StatColumns(g, stat_values) ==
    [c \in {g \o "_" \o fld : fld \in DOMAIN stat_values} |->
        stat_values[CHOOSE fld \in DOMAIN stat_values : g \o "_" \o fld = c]]

PlayerRow(g, split) ==
    [playerId |-> split.player.id, playerName |-> split.player.fullName]
        @@ StatColumns(g, Get(split, "stat", <<>>))

BlockRows(g, stat_block) ==
    LET splits == Get(stat_block, "splits", <<>>)
    IN [i \in 1..Len(splits) |-> PlayerRow(g, splits[i])]
BatchRows(g, stats_blocks) ==
    ConcatAll([b \in 1..Len(stats_blocks) |-> BlockRows(g, stats_blocks[b])])

\* not stats_blocks or all(len(block.get("splits", [])) == 0 ...)
NoRecords(stats_blocks) ==
    \/ stats_blocks = <<>>
    \/ \A b \in 1..Len(stats_blocks) : Len(Get(stats_blocks[b], "splits", <<>>)) = 0

\* mutant: the offset is not advanced
NextOffset_stays(off, batch_rows) == off
\* offset += limit
NextOffset(off, batch_rows) == off + limit

\* pd.DataFrame(list of dicts): the columns are the keys, a missing key is NaN
DataFrame(rows) ==
    LET columns == UNION {DOMAIN rows[i] : i \in 1..Len(rows)}
    IN [columns |-> columns,
        rows    |-> [i \in 1..Len(rows) |-> [c \in columns |-> Get(rows[i], c, NaN)]]]

FetchPage ==
    /\ ppc = "loop"
    /\ \E k \in PageCounts(offset, limit) :
       \E answer \in Answers(PageSplits(offset, k)) :
         LET stats_blocks == Get(answer, "stats", <<>>)
             batch_rows   == BatchRows(group, stats_blocks)
         IN /\ raw' = answer
            /\ statLog' = Append(statLog, [group |-> group, offset |-> offset,
                                           limit |-> limit, returned |-> k])
            /\ IF NoRecords(stats_blocks) \/ batch_rows = <<>>
               THEN /\ ppc' = "return"
                    /\ UNCHANGED <<all_rows, offset>>
               ELSE /\ all_rows' = all_rows \o batch_rows
                    /\ offset' = NextOffset(offset, batch_rows)
                    /\ ppc' = "loop"
    /\ UNCHANGED <<group, nRecords, returned_df>>
    /\ UNCHANGED <<oddsVars, statsVars>>

ReturnFrame ==
    /\ ppc = "return"
    /\ ppc' = "done"
    /\ returned_df' = DataFrame(all_rows)
    /\ UNCHANGED <<group, nRecords, offset, all_rows, raw, statLog>>
    /\ UNCHANGED <<oddsVars, statsVars>>

InitPage ==
    /\ group \in Groups
    /\ nRecords \in 0..MaxRecords
    /\ ppc = "loop"
    /\ offset = 0
    /\ all_rows = <<>>
    /\ raw = Unset
    /\ statLog = <<>>
    /\ returned_df = Unset

NextPage ==
    \/ FetchPage
    \/ ReturnFrame

InitPageRun == IdleOdds /\ InitPage /\ IdleStats

SpecPage == InitPageRun /\ [][NextPage]_vars

\* the loop is sequential code: a step that can be taken is taken
FairSpecPage == SpecPage /\ WF_vars(NextPage)

(***************************************************************************)
(* fetchstatsMLB.py: main()                                                *)
(***************************************************************************)
Range(f) == {f[x] : x \in DOMAIN f}

\* pd.DataFrame(): no columns, no rows
EmptyFrame == [columns |-> {}, rows |-> <<>>]

\* ---- what the server holds: for each group, some of the players 1..MaxPlayers
\* in ascending id order, each under one of PlayerNames, and some of the
\* teams 1..MaxTeams
PlayerNames == {"Ann", "Bob"}
PlayerIds == 1..MaxPlayers
TeamIds == 1..MaxTeams
TeamName(id) == "Team " \o ToString(id)

RECURSIVE AscendingSeq(_)
AscendingSeq(S) ==
    IF S = {} THEN <<>>
    ELSE LET m == CHOOSE x \in S : \A y \in S : x <= y
         IN <<m>> \o AscendingSeq(S \ {m})

PlayerSplits(g, names) ==
    LET ids == AscendingSeq(DOMAIN names)
    IN [i \in 1..Len(ids) |->
           [player |-> [id |-> ids[i], fullName |-> names[ids[i]]],
            stat   |-> [gamesPlayed |-> g \o " games of " \o ToString(ids[i])]]]
PlayerTables == UNION {[ids -> PlayerNames] : ids \in SUBSET PlayerIds}

TeamSplits(g, ids) ==
    LET s == AscendingSeq(ids)
    IN [i \in 1..Len(s) |->
           [team |-> [id |-> s[i], name |-> TeamName(s[i])],
            stat |-> [runs |-> g \o " runs of " \o ToString(s[i])]]]

\* the player fetch against a server that answers one full page and then an
\* empty one: the loop's result is the frame of the first page's rows
FetchAllPlayers(g, splits) == DataFrame(BatchRows(g, <<[splits |-> splits]>>))

\* ---- fetch_all_team_hitting_stats / fetch_all_team_pitching_stats
TeamRow(g, split) ==
    LET team_info == Get(split, "team", <<>>)
    IN [teamId |-> Get(team_info, "id", None), teamName |-> Get(team_info, "name", None)]
           @@ StatColumns("team_" \o g, Get(split, "stat", <<>>))

FetchAllTeams(g, answer) ==
    LET stats_blocks == Get(answer, "stats", <<>>)
    IN IF stats_blocks = <<>> \/ Get(stats_blocks[1], "splits", <<>>) = <<>>
       THEN EmptyFrame
       ELSE LET splits == stats_blocks[1].splits
            IN DataFrame([i \in 1..Len(splits) |-> TeamRow(g, splits[i])])

TeamAnswers(splits) ==
    IF splits = <<>>
    THEN {[stats |-> <<>>], [stats |-> <<[splits |-> <<>>]>>]}
    ELSE {[stats |-> <<[splits |-> splits]>>]}

\* ---- pd.merge(left, right, on=keys, how=how, suffixes=(lsuffix, rsuffix))
KeyOf(row, keys) == [k \in 1..Len(keys) |-> row[keys[k]]]
FrameKeys(df, keys) == {KeyOf(df.rows[i], keys) : i \in 1..Len(df.rows)}

\* the keys in the order of their first column (an integer id in both merges)
RECURSIVE SortedKeys(_)
SortedKeys(K) ==
    IF K = {} THEN <<>>
    ELSE LET m == CHOOSE x \in K : \A y \in K : x[1] <= y[1]
         IN <<m>> \o SortedKeys(K \ {m})

MergeRaises(left, right, keys) ==
    \E k \in 1..Len(keys) : keys[k] \notin left.columns \/ keys[k] \notin right.columns

Merge(left, right, keys, how, lsuffix, rsuffix) ==
    LET keyCols  == Range(keys)
        overlap  == (left.columns \cap right.columns) \ keyCols
        lname(c) == IF c \in overlap THEN c \o lsuffix ELSE c
        rname(c) == IF c \in overlap THEN c \o rsuffix ELSE c
        lcols    == {lname(c) : c \in left.columns \ keyCols}
        rcols    == {rname(c) : c \in right.columns \ keyCols}
        columns  == keyCols \cup lcols \cup rcols
        lkeys    == FrameKeys(left, keys)
        rkeys    == FrameKeys(right, keys)
        allKeys  == IF how = "outer" THEN lkeys \cup rkeys
                    ELSE IF how = "left" THEN lkeys
                    ELSE lkeys \cap rkeys
        lrowsOf(key) == SelectSeq(left.rows, LAMBDA r : KeyOf(r, keys) = key)
        rrowsOf(key) == SelectSeq(right.rows, LAMBDA r : KeyOf(r, keys) = key)
        joined(key, l, r) ==
            [c \in columns |->
                IF c \in keyCols THEN key[CHOOSE k \in 1..Len(keys) : keys[k] = c]
                ELSE IF c \in lcols
                     THEN IF l = <<>> THEN NaN
                          ELSE l[CHOOSE d \in left.columns \ keyCols : lname(d) = c]
                     ELSE IF r = <<>> THEN NaN
                          ELSE r[CHOOSE d \in right.columns \ keyCols : rname(d) = c]]
        rowsOfKey(key) ==
            LET ls == lrowsOf(key)
                rs == rrowsOf(key)
            IN IF rs = <<>> THEN [i \in 1..Len(ls) |-> joined(key, ls[i], <<>>)]
               ELSE IF ls = <<>> THEN [j \in 1..Len(rs) |-> joined(key, <<>>, rs[j])]
               ELSE ConcatAll([i \in 1..Len(ls) |->
                               [j \in 1..Len(rs) |-> joined(key, ls[i], rs[j])]])
        sorted == SortedKeys(allKeys)
    IN [columns |-> columns,
        rows    |-> ConcatAll([n \in 1..Len(sorted) |-> rowsOfKey(sorted[n])])]

\* mutant: an inner join
PlayerMergeHow_inner == "inner"
\* how="outer"
PlayerMergeHow == "outer"

\* ---- step 5 of main: one playerName column
\* mutant: the pitching-side name is preferred
FilledName_pitFirst(row) ==
    LET hit == Get(row, "playerName_hit", NaN)
        pit == Get(row, "playerName_pit", NaN)
    IN IF pit # NaN THEN pit ELSE hit
\* merged.get("playerName_hit", empty).fillna(merged.get("playerName_pit", empty))
FilledName(row) ==
    LET hit == Get(row, "playerName_hit", NaN)
        pit == Get(row, "playerName_pit", NaN)
    IN IF hit # NaN THEN hit ELSE pit

\* df.set_index("playerId")["playerName"].to_dict(), then Series.map
NameFromMap(df, id) ==
    IF "playerName" \in df.columns /\ \E i \in 1..Len(df.rows) : df.rows[i].playerId = id
    THEN df.rows[CHOOSE i \in 1..Len(df.rows) :
                    /\ df.rows[i].playerId = id
                    /\ \A j \in (i + 1)..Len(df.rows) : df.rows[j].playerId # id].playerName
    ELSE NaN

Restrict(df, columns) ==
    [columns |-> columns,
     rows    |-> [i \in 1..Len(df.rows) |-> [c \in columns |-> df.rows[i][c]]]]

\* df["playerName"] = names
WithPlayerName(df, names) ==
    [columns |-> df.columns \cup {"playerName"},
     rows    |-> [i \in 1..Len(df.rows) |->
                    [c \in df.columns \cup {"playerName"} |->
                        IF c = "playerName" THEN names[i] ELSE df.rows[i][c]]]]

MappedName(hit_df, pit_df, row) ==
    IF NameFromMap(hit_df, row.playerId) # NaN
    THEN NameFromMap(hit_df, row.playerId)
    ELSE NameFromMap(pit_df, row.playerId)

ReconstructName(merged, hit_df, pit_df) ==
    IF "playerName_hit" \in merged.columns \/ "playerName_pit" \in merged.columns
    THEN Restrict(WithPlayerName(merged, [i \in 1..Len(merged.rows) |-> FilledName(merged.rows[i])]),
                  (merged.columns \cup {"playerName"}) \ {"playerName_hit", "playerName_pit"})
    ELSE IF "playerName" \notin merged.columns
    THEN WithPlayerName(merged, [i \in 1..Len(merged.rows) |->
                                    MappedName(hit_df, pit_df, merged.rows[i])])
    ELSE merged

\* steps 6 and 11: the id columns, then the prefixed stat columns
HasPrefix(c, prefix) ==
    /\ Len(c) >= Len(prefix)
    /\ SubSeq(c, 1, Len(prefix)) = prefix
ReorderPlayers(df) ==
    Restrict(df, {c \in df.columns : \/ c \in {"playerId", "playerName"}
                                     \/ HasPrefix(c, "hitting_")
                                     \/ HasPrefix(c, "pitching_")})
ReorderTeams(df) ==
    Restrict(df, {c \in df.columns : \/ c \in {"teamId", "teamName"}
                                     \/ HasPrefix(c, "team_hitting_")
                                     \/ HasPrefix(c, "team_pitching_")})

\* ---- main()
FetchHitting ==
    /\ mpc = "start"
    /\ \E names \in PlayerTables :
         hitting_df' = FetchAllPlayers("hitting", PlayerSplits("hitting", names))
    /\ mpc' = "hitting"
    /\ UNCHANGED <<pitching_df, merged_players, player_csv,
                   team_hitting_df, team_pitching_df, merged_teams, team_csv>>
    /\ UNCHANGED <<oddsVars, pageVars>>

FetchPitching ==
    /\ mpc = "hitting"
    /\ \E names \in PlayerTables :
         pitching_df' = FetchAllPlayers("pitching", PlayerSplits("pitching", names))
    /\ mpc' = "pitching"
    /\ UNCHANGED <<hitting_df, merged_players, player_csv,
                   team_hitting_df, team_pitching_df, merged_teams, team_csv>>
    /\ UNCHANGED <<oddsVars, pageVars>>

MergePlayers ==
    /\ mpc = "pitching"
    /\ IF MergeRaises(hitting_df, pitching_df, <<"playerId">>)
       THEN /\ mpc' = "KeyError"
            /\ UNCHANGED merged_players
       ELSE /\ mpc' = "merged"
            /\ merged_players' = Merge(hitting_df, pitching_df, <<"playerId">>,
                                       PlayerMergeHow, "_hit", "_pit")
    /\ UNCHANGED <<hitting_df, pitching_df, player_csv,
                   team_hitting_df, team_pitching_df, merged_teams, team_csv>>
    /\ UNCHANGED <<oddsVars, pageVars>>

ReconstructPlayerName ==
    /\ mpc = "merged"
    /\ merged_players' = ReconstructName(merged_players, hitting_df, pitching_df)
    /\ mpc' = "named"
    /\ UNCHANGED <<hitting_df, pitching_df, player_csv,
                   team_hitting_df, team_pitching_df, merged_teams, team_csv>>
    /\ UNCHANGED <<oddsVars, pageVars>>

WritePlayerCsv ==
    /\ mpc = "named"
    /\ merged_players' = ReorderPlayers(merged_players)
    /\ player_csv' = ReorderPlayers(merged_players)
    /\ mpc' = "players_written"
    /\ UNCHANGED <<hitting_df, pitching_df,
                   team_hitting_df, team_pitching_df, merged_teams, team_csv>>
    /\ UNCHANGED <<oddsVars, pageVars>>

FetchTeamHitting ==
    /\ mpc = "players_written"
    /\ \E ids \in SUBSET TeamIds :
       \E answer \in TeamAnswers(TeamSplits("hitting", ids)) :
         team_hitting_df' = FetchAllTeams("hitting", answer)
    /\ mpc' = "team_hitting"
    /\ UNCHANGED <<hitting_df, pitching_df, merged_players, player_csv,
                   team_pitching_df, merged_teams, team_csv>>
    /\ UNCHANGED <<oddsVars, pageVars>>

FetchTeamPitching ==
    /\ mpc = "team_hitting"
    /\ \E ids \in SUBSET TeamIds :
       \E answer \in TeamAnswers(TeamSplits("pitching", ids)) :
         team_pitching_df' = FetchAllTeams("pitching", answer)
    /\ mpc' = "team_pitching"
    /\ UNCHANGED <<hitting_df, pitching_df, merged_players, player_csv,
                   team_hitting_df, merged_teams, team_csv>>
    /\ UNCHANGED <<oddsVars, pageVars>>

MergeTeams ==
    /\ mpc = "team_pitching"
    /\ IF MergeRaises(team_hitting_df, team_pitching_df, <<"teamId", "teamName">>)
       THEN /\ mpc' = "KeyError"
            /\ UNCHANGED merged_teams
       ELSE /\ mpc' = "teams_merged"
            /\ merged_teams' = Merge(team_hitting_df, team_pitching_df,
                                     <<"teamId", "teamName">>, "outer", "_x", "_y")
    /\ UNCHANGED <<hitting_df, pitching_df, merged_players, player_csv,
                   team_hitting_df, team_pitching_df, team_csv>>
    /\ UNCHANGED <<oddsVars, pageVars>>

WriteTeamCsv ==
    /\ mpc = "teams_merged"
    /\ merged_teams' = ReorderTeams(merged_teams)
    /\ team_csv' = ReorderTeams(merged_teams)
    /\ mpc' = "done"
    /\ UNCHANGED <<hitting_df, pitching_df, merged_players, player_csv,
                   team_hitting_df, team_pitching_df>>
    /\ UNCHANGED <<oddsVars, pageVars>>

InitStats ==
    /\ mpc = "start"
    /\ hitting_df = Unset
    /\ pitching_df = Unset
    /\ merged_players = Unset
    /\ player_csv = Unset
    /\ team_hitting_df = Unset
    /\ team_pitching_df = Unset
    /\ merged_teams = Unset
    /\ team_csv = Unset

NextStats ==
    \/ FetchHitting
    \/ FetchPitching
    \/ MergePlayers
    \/ ReconstructPlayerName
    \/ WritePlayerCsv
    \/ FetchTeamHitting
    \/ FetchTeamPitching
    \/ MergeTeams
    \/ WriteTeamCsv

InitStatsRun == IdleOdds /\ IdlePage /\ InitStats

SpecStats == InitStatsRun /\ [][NextStats]_vars


(***************************************************************************)
(* Claims about the pagination loop                                        *)
(***************************************************************************)
LoopStopsAtFirstEmptyPage ==
    /\ \A i \in 1..(Len(statLog) - 1) : statLog[i].returned > 0
    /\ ppc \in {"return", "done"} =>
          /\ statLog # <<>>
          /\ statLog[Len(statLog)].returned = 0
    /\ Len(statLog) <= (nRecords + limit - 1) \div limit + 1

\* C3: no request follows a page without records, the number of requests is
\* bounded by the number of pages of nRecords records plus one, and the
\* function returns.
C3_PaginationBounded == [](LoopStopsAtFirstEmptyPage) /\ <>(ppc = "done")

C3_Witness ==
    /\ ppc = "done"
    /\ nRecords > 2 * limit
    /\ Len(statLog) = 4
    /\ statLog[4].returned = 0
    /\ statLog[4].offset = 3 * limit

ServerRows == [i \in 1..nRecords |-> PlayerRow(group, Split(i - 1))]

\* C4 (as claimed): whatever page sizes the server answers with, the returned
\* table holds each of the nRecords records exactly once, in server order.
C4_NoRowLost == ppc = "done" => returned_df.rows = ServerRows

(***************************************************************************)
(* Claims about main() of fetchstatsMLB.py (checked under SpecStats)       *)
(***************************************************************************)
PlayerIdsOf(df) == {df.rows[i].playerId : i \in 1..Len(df.rows)}
PlayersMerged == mpc \notin {"start", "hitting", "pitching"} /\ merged_players # Unset

OuterJoinOf(df) ==
    /\ PlayerIdsOf(df) = PlayerIdsOf(hitting_df) \cup PlayerIdsOf(pitching_df)
    /\ \A i \in 1..Len(df.rows) : \A c \in df.columns :
          /\ (HasPrefix(c, "pitching_") /\ df.rows[i].playerId \notin PlayerIdsOf(pitching_df))
                => df.rows[i][c] = NaN
          /\ (HasPrefix(c, "hitting_") /\ df.rows[i].playerId \notin PlayerIdsOf(hitting_df))
                => df.rows[i][c] = NaN

\* C5: when both player tables are non-empty the merge succeeds, and the
\* playerIds of the merged table, and of player_stats.csv once written, are
\* the union of the playerIds of the two tables; a player missing on one side
\* has that side's stat columns empty.
C5_OuterJoinKeepsPlayers ==
    /\ (mpc = "KeyError" /\ team_hitting_df = Unset) =>
          (hitting_df.rows = <<>> \/ pitching_df.rows = <<>>)
    /\ PlayersMerged => OuterJoinOf(merged_players)
    /\ player_csv # Unset => OuterJoinOf(player_csv)

C5_Witness ==
    /\ player_csv # Unset
    /\ PlayerIdsOf(hitting_df) \ PlayerIdsOf(pitching_df) # {}
    /\ PlayerIdsOf(pitching_df) \ PlayerIdsOf(hitting_df) # {}
    /\ PlayerIdsOf(pitching_df) \cap PlayerIdsOf(hitting_df) # {}
    /\ Len(player_csv.rows) = 3

\* C8 (as claimed): main() never stops on an error, whichever fetch results
\* are empty, and a finished run has written both CSV files.
C8_MainCompletesOnEmpty ==
    /\ mpc # "KeyError"
    /\ mpc = "done" => (player_csv # Unset /\ team_csv # Unset)

NameIn(df, id, name) ==
    \E i \in 1..Len(df.rows) : df.rows[i].playerId = id /\ df.rows[i].playerName = name

SingleNameOf(df) ==
    /\ "playerName" \in df.columns
    /\ "playerName_hit" \notin df.columns
    /\ "playerName_pit" \notin df.columns
    /\ \A i \in 1..Len(df.rows) :
          LET row == df.rows[i]
          IN /\ row.playerName # NaN
             /\ IF row.playerId \in PlayerIdsOf(hitting_df)
                THEN NameIn(hitting_df, row.playerId, row.playerName)
                ELSE NameIn(pitching_df, row.playerId, row.playerName)

\* C9: after step 5 of main the merged table has the column playerName and
\* neither playerName_hit nor playerName_pit; each row carries the hitting-side
\* name when the player has a hitting row and the pitching-side name
\* otherwise, never a missing name.
C9_SinglePlayerName ==
    /\ mpc \in {"named", "players_written"} => SingleNameOf(merged_players)
    /\ player_csv # Unset => SingleNameOf(player_csv)

C9_Witness ==
    /\ mpc = "named"
    /\ \E id \in PlayerIdsOf(hitting_df) \cap PlayerIdsOf(pitching_df) :
          \E i \in 1..Len(merged_players.rows) :
             /\ merged_players.rows[i].playerId = id
             /\ ~NameIn(pitching_df, id, merged_players.rows[i].playerName)
    /\ PlayerIdsOf(pitching_df) \ PlayerIdsOf(hitting_df) # {}

(***************************************************************************)
(* Claims about fetchodds.py and fetchoddsMLB.py (checked under SpecOdds)  *)
(***************************************************************************)
IsFeaturedReq(r) == r.url = FeaturedUrl
IsEventReq(r) == r.url # FeaturedUrl
FeaturedReqs == SelectSeq(getLog, IsFeaturedReq)
EventReqs == SelectSeq(getLog, IsEventReq)
AfterFetch == {"fetched", "filtered", "extra", "done"}

\* C1: a first GET answered 422 is followed by a second GET to the same URL
\* with markets exactly h2h,spreads,totals, whose JSON is what the function
\* returns; a first GET answered with another error status raises to the
\* caller with no second request.
C1_RetryOn422Only ==
    Len(getLog) >= 1 =>
        /\ getLog[1].status_code = 422 =>
             \/ pc = "retry" /\ Len(getLog) = 1
             \/ /\ Len(getLog) >= 2
                /\ getLog[2].url = getLog[1].url
                /\ getLog[2].markets = "h2h,spreads,totals"
                /\ getLog[2].status_code = 200 =>
                      /\ games = getLog[2].json
                      /\ Len(getLog) = 2 => pc \in AfterFetch
        /\ getLog[1].status_code \notin {200, 422} =>
             /\ pc = "raised"
             /\ Len(getLog) = 1

C1_Witness ==
    /\ Len(getLog) = 2
    /\ getLog[1].status_code = 422
    /\ getLog[2].status_code = 200
    /\ pc = "fetched"
    /\ Len(games) >= 2

\* C2: one call of fetch_featured_odds issues at most two GETs, and an error
\* answer to the retry (a second 422 included) is raised, not retried.
C2_SingleRetry ==
    /\ Len(FeaturedReqs) <= 2
    /\ (Len(getLog) >= 2 /\ IsFeaturedReq(getLog[2]) /\ getLog[2].status_code # 200) =>
          /\ pc = "raised"
          /\ Len(getLog) = 2

C2_Witness ==
    /\ Len(getLog) = 2
    /\ getLog[1].status_code = 422
    /\ getLog[2].status_code = 422
    /\ pc = "raised"

\* the games of the featured response whose commence time is today
CommencesToday(g) == g.commence_time = "today"
TodayOf(gs) == SelectSeq(gs, CommencesToday)

\* C6: in fetchoddsMLB.py every featured request precedes every event-odds
\* request, event-odds requests start only after the featured fetch succeeded,
\* the i-th event-odds request is for the i-th today game of the featured
\* response, and a finished run has issued exactly one per today game.
C6_LinearGets ==
    script = "fetchoddsMLB" =>
        /\ getLog = FeaturedReqs \o EventReqs
        /\ Len(FeaturedReqs) <= 2
        /\ EventReqs # <<>> =>
              /\ pc \in {"extra", "done"}
              /\ FeaturedReqs[Len(FeaturedReqs)].status_code = 200
        /\ Len(EventReqs) <= Len(TodayOf(games))
        /\ \A i \in 1..Len(EventReqs) : EventReqs[i].url = EventUrl(TodayOf(games)[i].id)
        /\ pc = "done" => Len(EventReqs) = Len(TodayOf(games))

C6_Witness ==
    /\ script = "fetchoddsMLB"
    /\ pc = "done"
    /\ Len(FeaturedReqs) = 2
    /\ Len(EventReqs) = 2
    /\ Len(games) = 3
    /\ EventReqs[1].url[2] > EventReqs[2].url[2]

\* the rows the extra-markets loop has written after the answers in reqs
ExtraRowsWritten(reqs) ==
    ConcatAll([i \in 1..Len(reqs) |->
        IF reqs[i].status_code = 200 THEN ExtraRows(today_games[i], reqs[i].json) ELSE <<>>])
FeaturedRowsWritten ==
    ConcatAll([i \in 1..Len(today_games) |-> FeaturedRows(today_games[i])])

\* C7: in fetchoddsMLB.py an HTTPError of one event-odds request never ends
\* the script; the CSV holds the featured rows of all today games followed by
\* the extra rows of exactly the games whose request succeeded, and a finished
\* run has requested every today game, closed the CSV and printed the message.
C7_EventErrorContained ==
    script = "fetchoddsMLB" =>
        /\ pc = "raised" => EventReqs = <<>>
        /\ pc \in {"extra", "done"} =>
              csv = FeaturedRowsWritten \o ExtraRowsWritten(EventReqs)
        /\ pc = "done" =>
              /\ Len(EventReqs) = Len(today_games)
              /\ ~csvOpen
              /\ exported

C7_Witness ==
    /\ script = "fetchoddsMLB"
    /\ pc = "done"
    /\ Len(EventReqs) = 3
    /\ EventReqs[1].status_code = 200
    /\ EventReqs[2].status_code = 500
    /\ EventReqs[3].status_code = 200
    /\ Len(csv) = 3 * Len(FeaturedRows(today_games[1])) + 6

=============================================================================
